---- MODULE Spec2Model ----
(***************************************************************************)
(* Model of src/main.rs: the rock-paper-scissors particle simulation.      *)
(*                                                                         *)
(* Floating point.  The program computes in IEEE-754 binary floating       *)
(* point (f64 for the particles, f32 for frame_time).  The model keeps     *)
(* the structure of that arithmetic - every operation rounds its exact     *)
(* result to the nearest representable value, ties to even; x/0, 0/0,      *)
(* inf and NaN behave as in IEEE-754 - with a narrower format:             *)
(* MANTISSA_DIGITS significant bits, and a smallest granule of 2^-FracBits *)
(* (the subnormal spacing).  A finite value is held as the integer k that  *)
(* stands for k * 2^-FracBits; NaN and the infinities are sentinels above  *)
(* every finite value.  The sign of zero is not modelled: every zero       *)
(* divisor of the program is a norm, that is +0.                           *)
(***************************************************************************)
EXTENDS Integers, Sequences, FiniteSets, TLC

\* ------------------------------------------------------------------ bounds

\* Significant bits of the floating-point format (f64 has 53).
MANTISSA_DIGITS == 8

\* Particles in the simulation (the program's NUM_PARTICLES is 25).
NUM_PARTICLES == 3

\* Logical updates explored from each initial configuration.
MaxUpdates == 2

\* --------------------------------------------------------- program constants

SCREEN_WIDTH == 80
SCREEN_HEIGHT == 80
FRAME_DURATION == 60

\* ------------------------------------------------------------ floating point

FracBits == MANTISSA_DIGITS + 4

\* 1.0
One == 2^FracBits

PosInf == 2^29
NegInf == -PosInf
NaN == 2^30

IsNaN(x) == x = NaN
IsFinite(x) == x > NegInf /\ x < PosInf

Abs(x) == IF x < 0 THEN -x ELSE x
Max2(a, b) == IF a >= b THEN a ELSE b
Min2(a, b) == IF a <= b THEN a ELSE b

\* Number of bits of n >= 0.
RECURSIVE BitLen(_)
BitLen(n) == IF n = 0 THEN 0 ELSE 1 + BitLen(n \div 2)

\* Number of trailing zero bits of k > 0.
RECURSIVE TrailingZeros(_)
TrailingZeros(k) == IF k % 2 = 1 THEN 0 ELSE 1 + TrailingZeros(k \div 2)

\* Round-half-to-even of num/den, den > 0, num >= 0.
RoundHalfEven(num, den) ==
    LET m == num \div den
        r == num % den
    IN  IF 2 * r > den \/ (2 * r = den /\ m % 2 = 1) THEN m + 1 ELSE m

\* The representable value nearest to the integer n >= 0 (in granules).
RoundInt(n) ==
    LET b == BitLen(n)
        t == IF b > MANTISSA_DIGITS THEN b - MANTISSA_DIGITS ELSE 0
        res == RoundHalfEven(n, 2^t) * 2^t
    IN  IF res >= PosInf THEN PosInf ELSE res

\* The representable value nearest to (n / d) * 2^e granules, n >= 0, d > 0.
RoundRat(n, d, e) ==
    IF n = 0 THEN 0
    ELSE
      LET c == BitLen(n) - BitLen(d)
          \* L = floor(log2(n / d))
          L == IF n * 2^Max2(-c, 0) >= d * 2^Max2(c, 0) THEN c ELSE c - 1
          t == Max2(0, L + e - (MANTISSA_DIGITS - 1))
          sh == e - t
      IN  IF L + e >= 29 THEN PosInf
          ELSE LET res == RoundHalfEven(n * 2^Max2(sh, 0), d * 2^Max2(-sh, 0)) * 2^t
               IN  IF res >= PosInf THEN PosInf ELSE res

\* Attach the sign s (1 or -1) to a magnitude.
Signed(s, mag) == IF s < 0 THEN -mag ELSE mag
SignOf(x) == IF x < 0 THEN -1 ELSE 1

\* Odd part of a finite k > 0: k = Mant(k) * 2^TrailingZeros(k).
Mant(k) == k \div 2^TrailingZeros(k)

\* -x
fneg(x) == IF IsNaN(x) THEN NaN ELSE -x

\* x + y
fadd(x, y) ==
    IF IsNaN(x) \/ IsNaN(y) THEN NaN
    ELSE IF ~IsFinite(x) THEN (IF ~IsFinite(y) /\ y # x THEN NaN ELSE x)
    ELSE IF ~IsFinite(y) THEN y
    ELSE Signed(SignOf(x + y), RoundInt(Abs(x + y)))

\* x - y
fsub(x, y) == fadd(x, fneg(y))

\* x * y
fmul(x, y) ==
    IF IsNaN(x) \/ IsNaN(y) THEN NaN
    ELSE IF ~IsFinite(x) \/ ~IsFinite(y)
         THEN (IF x = 0 \/ y = 0 THEN NaN ELSE Signed(SignOf(x) * SignOf(y), PosInf))
    ELSE IF x = 0 \/ y = 0 THEN 0
    ELSE LET ax == Abs(x)
             ay == Abs(y)
         IN  Signed(SignOf(x) * SignOf(y),
                    RoundRat(Mant(ax) * Mant(ay), 1,
                             TrailingZeros(ax) + TrailingZeros(ay) - FracBits))

\* x / y
fdiv(x, y) ==
    IF IsNaN(x) \/ IsNaN(y) THEN NaN
    ELSE IF ~IsFinite(x)
         THEN (IF ~IsFinite(y) THEN NaN ELSE Signed(SignOf(x) * SignOf(y), PosInf))
    ELSE IF ~IsFinite(y) THEN 0
    ELSE IF y = 0 THEN (IF x = 0 THEN NaN ELSE Signed(SignOf(x), PosInf))
    ELSE IF x = 0 THEN 0
    ELSE LET ax == Abs(x)
             ay == Abs(y)
         IN  Signed(SignOf(x) * SignOf(y),
                    RoundRat(Mant(ax), Mant(ay),
                             TrailingZeros(ax) - TrailingZeros(ay) + FracBits))

\* floor(sqrt(n)) for lo^2 <= n < hi^2, by bisection.
RECURSIVE ISqrtIter(_, _, _)
ISqrtIter(n, lo, hi) ==
    IF hi - lo <= 1 THEN lo
    ELSE LET mid == (lo + hi) \div 2
         IN  IF mid * mid <= n THEN ISqrtIter(n, mid, hi) ELSE ISqrtIter(n, lo, mid)

ISqrt(n) == ISqrtIter(n, 0, 2^(MANTISSA_DIGITS + 1))

\* Least j >= 0 with m * 4^j >= 2^(2 * MANTISSA_DIGITS - 2).
RECURSIVE SqrtScale(_)
SqrtScale(m) == IF m >= 2^(2 * MANTISSA_DIGITS - 2) THEN 0 ELSE 1 + SqrtScale(4 * m)

\* x.sqrt(): the representable value nearest to the exact square root.
fsqrt(x) ==
    IF IsNaN(x) \/ x < 0 THEN NaN
    ELSE IF x = PosInf THEN PosInf
    ELSE IF x = 0 THEN 0
    ELSE LET E == TrailingZeros(x) + FracBits
             \* sqrt(x granules) = sqrt(M) * 2^e granules
             M == IF E % 2 = 0 THEN Mant(x) ELSE 2 * Mant(x)
             e == E \div 2
             j == Min2(SqrtScale(M), e)
             A == M * 4^j
             R == ISqrt(A)
         IN  (IF A > R * R + R THEN R + 1 ELSE R) * 2^(e - j)

\* x < y and x > y; every comparison with NaN is false.
flt(x, y) == ~IsNaN(x) /\ ~IsNaN(y) /\ x < y
fgt(x, y) == ~IsNaN(x) /\ ~IsNaN(y) /\ x > y

\* An integer literal n as a floating-point value (n.0, or `n as f64`).
FromInt(n) == n * One

\* -------------------------------------------------------------------- Vec2f

Vec2f(x, y) == [x |-> x, y |-> y]

scalar_product(self, other) == fadd(fmul(self.x, other.x), fmul(self.y, other.y))

product(self, other) == Vec2f(fmul(self.x, other), fmul(self.y, other))

minus(self, other) == Vec2f(fsub(self.x, other.x), fsub(self.y, other.y))

plus(self, other) == Vec2f(fadd(self.x, other.x), fadd(self.y, other.y))

norm(self) == fsqrt(scalar_product(self, self))

distance(self, other) == norm(minus(self, other))

\* --------------------------------------------------------------------- Hand

Hand == {"Rock", "Paper", "Scissors"}

\* beats with the Scissors arm returning Rock: no longer a cycle.
beats_not_cyclic(self) ==
    CASE self = "Rock" -> "Scissors"
      [] self = "Paper" -> "Rock"
      [] self = "Scissors" -> "Rock"

\* beats returning what defeats the hand instead of what it defeats.
beats_reversed(self) ==
    CASE self = "Rock" -> "Paper"
      [] self = "Paper" -> "Scissors"
      [] self = "Scissors" -> "Rock"

beats(self) ==
    CASE self = "Rock" -> "Scissors"
      [] self = "Paper" -> "Rock"
      [] self = "Scissors" -> "Paper"

\* ----------------------------------------------------------------- Particle

\* 1.5
PARTICLE_RADIUS == (3 * One) \div 2

Particle(position, velocity, hand) ==
    [position |-> position, velocity |-> velocity, hand |-> hand]

\* The particles Particle::new is taken to draw: positions in
\* [0, SCREEN_WIDTH) x [0, SCREEN_HEIGHT), velocities in [-1, 1) per axis.
\*   Near1: at the left wall, moving out of the field
\*   Near2: close to Near1, so that the two collide after the first movement
\*   Near3: close to Near2 but not to Near1
\*   Far:   at the right wall, moving out of the field, far from the others
Near1(h) == Particle(Vec2f((3 * One) \div 4, FromInt(40)), Vec2f(-One, 0), h)
Near2(h) == Particle(Vec2f(FromInt(2), FromInt(41)), Vec2f(One \div 2, -(One \div 2)), h)
Near3(h) == Particle(Vec2f(FromInt(4), FromInt(42)), Vec2f(-(One \div 2), One \div 4), h)
Far(h) == Particle(Vec2f((159 * One) \div 2, FromInt(79)),
                   Vec2f((15 * One) \div 16, One \div 2), h)

\* Particle::new: the values the random generator can return.
NewParticles ==
    {Near1(h) : h \in Hand} \cup {Near2(h) : h \in Hand} \cup {Near3("Paper"), Far("Rock")}

\* check_wall_collision stopping a particle at the far wall instead of
\* mirroring its overshoot.
check_wall_collision_clamping(self) ==
    LET px == self.position.x
        py == self.position.y
        hitX == flt(px, 0) \/ fgt(px, FromInt(SCREEN_WIDTH))
        hitY == flt(py, 0) \/ fgt(py, FromInt(SCREEN_HEIGHT))
        nx == IF flt(px, 0) THEN fneg(px)
              ELSE IF fgt(px, FromInt(SCREEN_WIDTH)) THEN FromInt(SCREEN_WIDTH)
              ELSE px
        ny == IF flt(py, 0) THEN fneg(py)
              ELSE IF fgt(py, FromInt(SCREEN_HEIGHT)) THEN FromInt(SCREEN_HEIGHT)
              ELSE py
        vx == IF hitX THEN fneg(self.velocity.x) ELSE self.velocity.x
        vy == IF hitY THEN fneg(self.velocity.y) ELSE self.velocity.y
    IN  Particle(Vec2f(nx, ny), Vec2f(vx, vy), self.hand)

check_wall_collision(self) ==
    LET px == self.position.x
        py == self.position.y
        hitX == flt(px, 0) \/ fgt(px, FromInt(SCREEN_WIDTH))
        hitY == flt(py, 0) \/ fgt(py, FromInt(SCREEN_HEIGHT))
        nx == IF flt(px, 0) THEN fneg(px)
              ELSE IF fgt(px, FromInt(SCREEN_WIDTH))
                   THEN fsub(fmul(FromInt(2), FromInt(SCREEN_WIDTH)), px)
              ELSE px
        ny == IF flt(py, 0) THEN fneg(py)
              ELSE IF fgt(py, FromInt(SCREEN_HEIGHT))
                   THEN fsub(fmul(FromInt(2), FromInt(SCREEN_HEIGHT)), py)
              ELSE py
        vx == IF hitX THEN fneg(self.velocity.x) ELSE self.velocity.x
        vy == IF hitY THEN fneg(self.velocity.y) ELSE self.velocity.y
    IN  Particle(Vec2f(nx, ny), Vec2f(vx, vy), self.hand)

\* collides_width counting particles that just touch as colliding.
collides_width_touching(self, other) ==
    \/ flt(distance(self.position, other.position), fmul(FromInt(2), PARTICLE_RADIUS))
    \/ distance(self.position, other.position) = fmul(FromInt(2), PARTICLE_RADIUS)

collides_width(self, other) ==
    flt(distance(self.position, other.position), fmul(FromInt(2), PARTICLE_RADIUS))

velocity_projection(self, other) ==
    LET line == minus(other.position, self.position)
        n == norm(line)
    IN  product(line, fdiv(scalar_product(self.velocity, line), fmul(n, n)))

update_position(self) ==
    [self EXCEPT !.position = plus(self.position, self.velocity)]

\* handle_match converting the winner instead of the loser.
handle_match_winner_converted(self, other) ==
    IF beats(self.hand) = other THEN [self EXCEPT !.hand = other] ELSE self

\* handle_match giving the loser the hand it beats instead of the winner's.
handle_match_cycling(self, other) ==
    IF beats(other) = self.hand THEN [self EXCEPT !.hand = beats(self.hand)] ELSE self

handle_match(self, other) ==
    IF beats(other) = self.hand THEN [self EXCEPT !.hand = other] ELSE self

\* -------------------------------------------------------------------- State

Idx == 0 .. NUM_PARTICLES - 1

\* CollideVelocity with each projection removed but the other one not added.
CollideVelocity_discarding(ps, lhs, rhs) ==
    LET v_lr == velocity_projection(ps[lhs], ps[rhs])
        v_rl == velocity_projection(ps[rhs], ps[lhs])
    IN  [ps EXCEPT ![lhs].velocity = minus(ps[lhs].velocity, v_lr),
                   ![rhs].velocity = minus(ps[rhs].velocity, v_rl)]

\* State::collide, "Changes in velocity": the two projections are taken
\* before either velocity is written.
CollideVelocity(ps, lhs, rhs) ==
    LET v_lr == velocity_projection(ps[lhs], ps[rhs])
        v_rl == velocity_projection(ps[rhs], ps[lhs])
    IN  [ps EXCEPT ![lhs].velocity = plus(minus(ps[lhs].velocity, v_lr), v_rl),
                   ![rhs].velocity = plus(minus(ps[rhs].velocity, v_rl), v_lr)]

\* DisplacementVec with the whole overlap given to each particle's push
\* measured from the radius rather than from half the distance.
DisplacementVec_without_halving(ps, lhs, rhs) ==
    LET dist == distance(ps[rhs].position, ps[lhs].position)
        displacement == fsub(PARTICLE_RADIUS, dist)
        l_to_r == minus(ps[rhs].position, ps[lhs].position)
    IN  product(l_to_r, fdiv(displacement, norm(l_to_r)))

\* displacement_vec of State::collide
DisplacementVec(ps, lhs, rhs) ==
    LET dist == distance(ps[rhs].position, ps[lhs].position)
        displacement == fsub(PARTICLE_RADIUS, fdiv(dist, FromInt(2)))
        l_to_r == minus(ps[rhs].position, ps[lhs].position)
    IN  product(l_to_r, fdiv(displacement, norm(l_to_r)))

\* State::collide, "Displace particles to leave collision condition"
CollideDisplace(ps, lhs, rhs, displacement_vec) ==
    [ps EXCEPT ![lhs].position = minus(ps[lhs].position, displacement_vec),
               ![rhs].position = plus(ps[rhs].position, displacement_vec)]

\* State::collide, "Change symbol type": lhs is matched first, rhs is then
\* matched against the hand lhs holds after its own match.
CollideMatch(ps, lhs, rhs) ==
    LET ps1 == [ps EXCEPT ![lhs] = handle_match(ps[lhs], ps[rhs].hand)]
    IN  [ps1 EXCEPT ![rhs] = handle_match(ps1[rhs], ps1[lhs].hand)]

\* State::collide on the particle array ps.
collide(ps, lhs, rhs) ==
    CollideMatch(CollideDisplace(CollideVelocity(ps, lhs, rhs), lhs, rhs,
                                 DisplacementVec(ps, lhs, rhs)),
                 lhs, rhs)

\* What one logical update did, in order: a "move" for each particle moved
\* (update_position, then check_wall_collision), a "test" for each pair whose
\* collides_width was evaluated, a "collide" for each pair State::collide ran
\* on, with the two particles as they were before and after the call.
MoveEvent(i) == [op |-> "move", lhs |-> i, rhs |-> i]
TestEvent(lhs, rhs, hit) == [op |-> "test", lhs |-> lhs, rhs |-> rhs, hit |-> hit]
CollideEvent(lhs, rhs, before, after) ==
    [op |-> "collide", lhs |-> lhs, rhs |-> rhs,
     before |-> <<before[lhs], before[rhs]>>, after |-> <<after[lhs], after[rhs]>>]

\* MoveLoop without the call of check_wall_collision.
RECURSIVE MoveLoop_no_reflection(_, _)
MoveLoop_no_reflection(st, i) ==
    IF i >= NUM_PARTICLES THEN st
    ELSE MoveLoop_no_reflection([ps |-> [st.ps EXCEPT ![i] = update_position(st.ps[i])],
                                 log |-> Append(st.log, MoveEvent(i))],
                                i + 1)

\* `for particle in &mut self.particles`, from particle i on.
RECURSIVE MoveLoop(_, _)
MoveLoop(st, i) ==
    IF i >= NUM_PARTICLES THEN st
    ELSE MoveLoop([ps |-> [st.ps EXCEPT ![i] = check_wall_collision(update_position(st.ps[i]))],
                   log |-> Append(st.log, MoveEvent(i))],
                  i + 1)

\* `self.collide(lhs, rhs); return;` with the array `after` the call.
Collided(st, lhs, rhs, after) ==
    [ps |-> after,
     log |-> st.log \o <<TestEvent(lhs, rhs, TRUE), CollideEvent(lhs, rhs, st.ps, after)>>]

\* `for rhs in lhs + 1..NUM_PARTICLES`, from rhs on: the body's `return` ends
\* the closure call for this lhs.
RECURSIVE ScanInner(_, _, _)
ScanInner(st, lhs, rhs) ==
    IF rhs >= NUM_PARTICLES THEN st
    ELSE IF collides_width(st.ps[lhs], st.ps[rhs])
         THEN Collided(st, lhs, rhs, collide(st.ps, lhs, rhs))
         ELSE ScanInner([ps |-> st.ps, log |-> Append(st.log, TestEvent(lhs, rhs, FALSE))],
                        lhs, rhs + 1)

\* The outer loop taking lhs from the last index down to the one given.
RECURSIVE ScanOuterDown(_, _)
ScanOuterDown(st, lhs) ==
    IF lhs < 0 THEN st
    ELSE ScanOuterDown(ScanInner(st, lhs, lhs + 1), lhs - 1)

ScanOuter_descending(st, lhs) == ScanOuterDown(st, NUM_PARTICLES - 1)

\* `(0..NUM_PARTICLES).for_each(|lhs| ...)`, from lhs on: for_each calls the
\* closure for every lhs.
RECURSIVE ScanOuter(_, _)
ScanOuter(st, lhs) ==
    IF lhs >= NUM_PARTICLES THEN st
    ELSE ScanOuter(ScanInner(st, lhs, lhs + 1), lhs + 1)

\* One loop that moves particle i and at once scans the pairs (i, rhs).
RECURSIVE FusedLoop(_, _)
FusedLoop(st, i) ==
    IF i >= NUM_PARTICLES THEN st
    ELSE FusedLoop(ScanInner([ps |-> [st.ps EXCEPT ![i] =
                                         check_wall_collision(update_position(st.ps[i]))],
                              log |-> Append(st.log, MoveEvent(i))],
                             i, i + 1),
                   i + 1)

Update_fused(ps) == FusedLoop([ps |-> ps, log |-> <<>>], 0)

\* The body of `if self.frame_time > FRAME_DURATION` after the reset.
Update(ps) == ScanOuter(MoveLoop([ps |-> ps, log |-> <<>>], 0), 0)

VARIABLES
    particles,   \* State.particles
    frame_time,  \* State.frame_time
    mode,        \* State.mode
    score,       \* State.score
    quitting,    \* ctx.quitting: the host stops calling tick
    updates,     \* logical updates performed so far
    last         \* the last tick: its handler, inputs, the state it started from

vars == <<particles, frame_time, mode, score, quitting, updates, last>>

\* ctx.key
Keys == {"P", "Q", "Other", "None"}

\* ctx.frame_time_ms
FrameTimes == {FromInt(60), FromInt(61)}

Last(op, key, dt, updated, log) ==
    [op |-> op, key |-> key, dt |-> dt, updated |-> updated, log |-> log,
     particles |-> particles, frame_time |-> frame_time, mode |-> mode]

\* State::new
Init ==
    /\ particles \in [Idx -> NewParticles]
    /\ frame_time = 0
    /\ mode = "Menu"
    /\ score = 0
    /\ quitting = FALSE
    /\ updates = 0
    /\ last = [op |-> "new", key |-> "None", dt |-> 0, updated |-> FALSE, log |-> <<>>,
               particles |-> particles, frame_time |-> 0, mode |-> "Menu"]

\* PlayUpdate drawing the hand of the first particle anew on every update.
PlayUpdate_redrawing(dt, res) ==
    /\ frame_time' = 0
    /\ \E h \in Hand : particles' = [res.ps EXCEPT ![0].hand = h]
    /\ updates' = updates + 1
    /\ last' = Last("play", "None", dt, TRUE, res.log)

\* State::play, the body of `if self.frame_time > FRAME_DURATION`, res being
\* what the update made of the particles.
PlayUpdate(dt, res) ==
    /\ frame_time' = 0
    /\ particles' = res.ps
    /\ updates' = updates + 1
    /\ last' = Last("play", "None", dt, TRUE, res.log)

\* PlayFrame with `>=` for `>`.
PlayFrame_at_threshold(dt, acc) ==
    IF ~flt(acc, FromInt(FRAME_DURATION))
    THEN PlayUpdate(dt, Update(particles))
    ELSE /\ frame_time' = acc
         /\ particles' = particles
         /\ updates' = updates
         /\ last' = Last("play", "None", dt, FALSE, <<>>)

\* State::play, acc being frame_time after `self.frame_time += ctx.frame_time_ms`.
PlayFrame(dt, acc) ==
    IF fgt(acc, FromInt(FRAME_DURATION))
    THEN PlayUpdate(dt, Update(particles))
    ELSE /\ frame_time' = acc
         /\ particles' = particles
         /\ updates' = updates
         /\ last' = Last("play", "None", dt, FALSE, <<>>)

\* State::play (the drawing, which changes no state, is left out)
play(dt) ==
    /\ updates < MaxUpdates
    /\ PlayFrame(dt, fadd(frame_time, dt))
    /\ UNCHANGED <<mode, score, quitting>>

\* restart entering mode End instead of Playing.
restart_ending ==
    /\ frame_time' = 0
    /\ mode' = "End"
    /\ score' = 0

\* State::restart
restart ==
    /\ frame_time' = 0
    /\ mode' = "Playing"
    /\ score' = 0

\* The key handling shared by State::main_menu and State::dead.
OnKey(key) ==
    CASE key = "P" -> restart /\ UNCHANGED quitting
      [] key = "Q" -> quitting' = TRUE /\ UNCHANGED <<frame_time, mode, score>>
      [] OTHER -> UNCHANGED <<frame_time, mode, score, quitting>>

\* main_menu stepping the simulation behind the menu.
main_menu_stepping(key) ==
    /\ OnKey(key)
    /\ last' = Last("main_menu", key, 0, FALSE, <<>>)
    /\ particles' = Update(particles).ps
    /\ UNCHANGED updates

\* State::main_menu
main_menu(key) ==
    /\ OnKey(key)
    /\ last' = Last("main_menu", key, 0, FALSE, <<>>)
    /\ UNCHANGED <<particles, updates>>

\* State::dead
dead(key) ==
    /\ OnKey(key)
    /\ last' = Last("dead", key, 0, FALSE, <<>>)
    /\ UNCHANGED <<particles, updates>>

\* GameState::tick, called by the host's main_loop until ctx.quitting
tick(key, dt) ==
    /\ ~quitting
    /\ CASE mode = "Menu" -> main_menu(key)
         [] mode = "End" -> dead(key)
         [] mode = "Playing" -> play(dt)

\* What the host's frame can hand to tick: main_menu and dead read only
\* ctx.key, play only ctx.frame_time_ms.
KeysIn(m) == IF m = "Playing" THEN {"None"} ELSE Keys
FrameTimesIn(m) == IF m = "Playing" THEN FrameTimes ELSE {0}

Next == \E key \in KeysIn(mode), dt \in FrameTimesIn(mode) : tick(key, dt)

Spec == Init /\ [][Next]_vars

\* ------------------------------------------------------------------ claims

\* The events of the last tick's logical update.
Log == last.log
CollideEvents == {i \in DOMAIN Log : Log[i].op = "collide"}
TestEvents == {i \in DOMAIN Log : Log[i].op = "test"}
MoveEvents == {i \in DOMAIN Log : Log[i].op = "move"}

\* The particles of the last tick's start after integrate and reflectOffBounds.
Moved == [i \in Idx |-> check_wall_collision(update_position(last.particles[i]))]

\* The pairs (i, j), i < j, that collide on the post-movement positions.
CollidingAfterMove ==
    {pr \in Idx \X Idx : pr[1] < pr[2] /\ collides_width(Moved[pr[1]], Moved[pr[2]])}

\* C1: in one logical update at most one pair is passed to collision
\* resolution, and once it has been resolved no further pair is tested or
\* resolved: a collide event, if any, is the last event of the update.
C1_AtMostOneCollisionPerUpdate ==
    /\ Cardinality(CollideEvents) <= 1
    /\ \A i \in CollideEvents : i = Len(Log)

\* The capture check of one participant against the other, on given hands.
Capture(mine, others) == IF beats(others) = mine THEN others ELSE mine

\* C2: after collide(i, j) the two hands are what both capture checks give on
\* the pre-collision hands (a, b), and collide(j, i) on the same two particles
\* leaves each of them the same hand.
C2_CaptureOnPreCollisionHands ==
    \A i \in CollideEvents :
        LET e == Log[i]
            a == e.before[1].hand
            b == e.before[2].hand
            swapped == collide(e.before, 2, 1)
        IN  /\ e.after[1].hand = Capture(a, b)
            /\ e.after[2].hand = Capture(b, a)
            /\ swapped[1].hand = e.after[1].hand
            /\ swapped[2].hand = e.after[2].hand

\* A collision in which the first participant, matched first, lost its hand.
C2_Witness ==
    \E i \in CollideEvents : Log[i].after[1].hand # Log[i].before[1].hand

\* C3: a pair found colliding at identical positions is not resolved: no
\* collide runs on two particles at zero centre distance.
C3_ZeroDistanceSkipped ==
    \A i \in CollideEvents : Log[i].before[1].position # Log[i].before[2].position

\* The hand of the two that beats the other (for two different hands).
Winner(a, b) == IF beats(a) = b THEN a ELSE b

\* C4: after a resolved collision two particles of different hands both hold
\* the hand that beats the other, and two of the same hand keep it.
C4_CaptureOutcome ==
    \A i \in CollideEvents :
        LET e == Log[i]
            a == e.before[1].hand
            b == e.before[2].hand
        IN  IF a # b
            THEN e.after[1].hand = Winner(a, b) /\ e.after[2].hand = Winner(a, b)
            ELSE e.after[1].hand = a /\ e.after[2].hand = b

\* Rock met Scissors and both are Rock afterwards.
C4_Witness ==
    \E i \in CollideEvents :
        /\ {Log[i].before[1].hand, Log[i].before[2].hand} = {"Rock", "Scissors"}
        /\ Log[i].after[1].hand = "Rock" /\ Log[i].after[2].hand = "Rock"

\* C5: beats maps Rock to Scissors, Scissors to Paper and Paper to Rock, and
\* is a 3-cycle without fixed points on every hand a particle holds.
C5_BeatsThreeCycle ==
    \A i \in Idx :
        LET h == particles[i].hand
        IN  /\ h = "Rock" => beats(h) = "Scissors"
            /\ h = "Scissors" => beats(h) = "Paper"
            /\ h = "Paper" => beats(h) = "Rock"
            /\ beats(h) \in Hand
            /\ beats(beats(beats(h))) = h
            /\ beats(h) # h
            /\ beats(beats(h)) # h

\* Three different hands are held and a collision of the last update was
\* decided by beats("Scissors") = "Paper".
C5_Witness ==
    /\ {last.particles[i].hand : i \in Idx} = Hand
    /\ \E i \in CollideEvents :
           /\ {Log[i].before[1].hand, Log[i].before[2].hand} = {"Paper", "Scissors"}
           /\ Log[i].after[1].hand = "Scissors" /\ Log[i].after[2].hand = "Scissors"

\* C6: in a logical update every particle is moved (integrated and reflected)
\* before the first collision test: the update's events start with the moves
\* of particles 0 .. NUM_PARTICLES - 1 and no move follows a test or collide.
C6_MovementBeforeCollisionTests ==
    last.updated =>
        /\ Len(Log) >= NUM_PARTICLES
        /\ \A i \in 1 .. NUM_PARTICLES : Log[i] = MoveEvent(i - 1)
        /\ \A i \in DOMAIN Log : i > NUM_PARTICLES => Log[i].op # "move"

\* An update in which a pair was tested and resolved.
C6_Witness == last.updated /\ TestEvents # {} /\ CollideEvents # {}

\* (i, j) comes before every other pair of S in lexicographic order.
LexLeast(pr, S) ==
    /\ pr \in S
    /\ \A q \in S : pr[1] < q[1] \/ (pr[1] = q[1] /\ pr[2] <= q[2])

\* C7: when some pair collides after movement, the first pair passed to
\* collision resolution is the lexicographically smallest (i, j), i < j, that
\* collides on the post-movement positions.
C7_FirstResolvedIsLexLeast ==
    (last.updated /\ CollidingAfterMove # {}) =>
        /\ CollideEvents # {}
        /\ \E i \in CollideEvents :
              /\ \A k \in CollideEvents : i <= k
              /\ LexLeast(<<Log[i].lhs, Log[i].rhs>>, CollidingAfterMove)

\* Several pairs collide after movement, and the smallest is not (0, 1).
C7_Witness ==
    /\ last.updated
    /\ Cardinality(CollidingAfterMove) >= 2
    /\ <<0, 1>> \notin CollidingAfterMove
    /\ CollideEvents # {}

\* C8: a tick in Playing mode adds the elapsed time to frame_time; it performs
\* one logical update, and resets frame_time to 0, exactly when the sum exceeds
\* FRAME_DURATION; otherwise no particle changes and the sum is kept.  After
\* the tick 0 <= frame_time <= FRAME_DURATION.
C8_OneUpdatePerTickAboveThreshold ==
    last.op = "play" =>
        LET acc == fadd(last.frame_time, last.dt)
        IN  /\ last.updated <=> fgt(acc, FromInt(FRAME_DURATION))
            /\ last.updated =>
                  /\ frame_time = 0
                  /\ \A p \in Idx : Cardinality({i \in MoveEvents : Log[i].lhs = p}) = 1
            /\ ~last.updated =>
                  /\ frame_time = acc
                  /\ particles = last.particles
                  /\ Log = <<>>
            /\ ~flt(frame_time, 0)
            /\ ~fgt(frame_time, FromInt(FRAME_DURATION))

\* A tick that brought frame_time to exactly FRAME_DURATION, without update.
C8_Witness ==
    last.op = "play" /\ ~last.updated /\ frame_time = FromInt(FRAME_DURATION)

\* C9: a logical update in which no pair collides after movement leaves every
\* hand unchanged and every position and velocity as integrate followed by
\* reflectOffBounds produce them.
C9_NoCollisionOnlyMoves ==
    (last.updated /\ CollidingAfterMove = {}) =>
        \A i \in Idx :
            /\ particles[i].hand = last.particles[i].hand
            /\ particles[i].position = Moved[i].position
            /\ particles[i].velocity = Moved[i].velocity

\* An update without collision in which a particle bounced off a wall.
C9_Witness ==
    /\ last.updated
    /\ CollidingAfterMove = {}
    /\ \E i \in Idx : particles[i].velocity.x = fneg(last.particles[i].velocity.x)
                      /\ particles[i].velocity.x # 0
                      /\ IsFinite(particles[i].velocity.x)

\* The spacing of the representable values around the magnitude n.
Ulp(n) == 2^Max2(0, BitLen(n) - MANTISSA_DIGITS)

\* The components of a vector, and the largest magnitude among vectors.
Components(v) == {v.x, v.y}
RECURSIVE MaxOf(_)
MaxOf(S) == IF S = {} THEN 0
            ELSE LET n == CHOOSE n \in S : TRUE
                 IN  Max2(n, MaxOf(S \ {n}))
MaxMagnitude(vs) == MaxOf({Abs(c) : c \in UNION {Components(v) : v \in vs}})

\* The centre distance of the two particles of a collide event, as computed.
EventDistance(e) == distance(e.before[2].position, e.before[1].position)

\* The exact sum of the two velocities after the call minus the sum before.
MomentumChange(e) ==
    [x |-> (e.after[1].velocity.x + e.after[2].velocity.x)
             - (e.before[1].velocity.x + e.before[2].velocity.x),
     y |-> (e.after[1].velocity.y + e.after[2].velocity.y)
             - (e.before[1].velocity.y + e.before[2].velocity.y)]

AllFinite(vs) == \A v \in vs : IsFinite(v.x) /\ IsFinite(v.y)

\* C10 as stated: for two particles at distinct positions the sum of the two
\* velocities after collide equals the sum before it.
C10_MomentumExactlyConserved ==
    \A i \in CollideEvents :
        LET e == Log[i]
        IN  e.before[1].position # e.before[2].position =>
                /\ AllFinite({e.after[1].velocity, e.after[2].velocity})
                /\ MomentumChange(e) = [x |-> 0, y |-> 0]

\* C10 amended: for two particles whose computed centre distance is not zero
\* the two sums agree up to the rounding of the four additions: each component
\* differs by at most 3 units in the last place of the largest component among
\* the velocities before, the velocities after and the two projections.
C10_MomentumConservedUpToRounding ==
    \A i \in CollideEvents :
        LET e == Log[i]
            vs == {e.before[1].velocity, e.before[2].velocity,
                   e.after[1].velocity, e.after[2].velocity,
                   velocity_projection(e.before[1], e.before[2]),
                   velocity_projection(e.before[2], e.before[1])}
        IN  EventDistance(e) # 0 =>
                /\ AllFinite(vs)
                /\ Abs(MomentumChange(e).x) <= 3 * Ulp(MaxMagnitude(vs))
                /\ Abs(MomentumChange(e).y) <= 3 * Ulp(MaxMagnitude(vs))

\* A collision at nonzero distance that changed both velocities and after
\* which the sum of the velocities is not exactly the sum before.
C10_Witness ==
    \E i \in CollideEvents :
        /\ EventDistance(Log[i]) # 0
        /\ Log[i].after[1].velocity # Log[i].before[1].velocity
        /\ Log[i].after[2].velocity # Log[i].before[2].velocity
        /\ MomentumChange(Log[i]) # [x |-> 0, y |-> 0]

\* The distance 2 * PARTICLE_RADIUS at which two particles touch.
TwoRadius == fmul(FromInt(2), PARTICLE_RADIUS)

\* The exact square of the distance between the two positions after a collide
\* event, in squared units of 2^-FracBits.
SeparationSq(e) ==
    LET dx == e.after[2].position.x - e.after[1].position.x
        dy == e.after[2].position.y - e.after[1].position.y
    IN  dx * dx + dy * dy

\* The exact distance after a collide event differs from 2 * PARTICLE_RADIUS
\* by at most tol units of 2^-FracBits.
SeparatedWithin(e, tol) ==
    /\ (TwoRadius - tol) * (TwoRadius - tol) <= SeparationSq(e)
    /\ SeparationSq(e) <= (TwoRadius + tol) * (TwoRadius + tol)

\* The exact scalar product of the move of particle k of a collide event with
\* the line from lhs to rhs before the call.
PushAlongLine(e, k) ==
    (e.after[k].position.x - e.before[k].position.x)
        * (e.before[2].position.x - e.before[1].position.x)
    + (e.after[k].position.y - e.before[k].position.y)
        * (e.before[2].position.y - e.before[1].position.y)

\* The square of the centre distance before a collide event, as computed, is
\* a normal number: nonzero and carrying all MANTISSA_DIGITS digits.
DistanceSqNormal(e) ==
    LET l_to_r == minus(e.before[2].position, e.before[1].position)
    IN  /\ AllFinite({e.before[1].position, e.before[2].position})
        /\ scalar_product(l_to_r, l_to_r) >= 2^(MANTISSA_DIGITS - 1)

Integrated == [i \in Idx |-> update_position(last.particles[i])]

\* Positions and velocities on which check_wall_collision is tried besides
\* those the updates produce: below, on, inside and above each bound.
ProbeCoords ==
    {FromInt(-3), 0, FromInt(SCREEN_WIDTH), FromInt(85), NaN}
ProbeSpeeds == {FromInt(2), -(One \div 2)}
Probes ==
    {Particle(Vec2f(px, py), Vec2f(vx, FromInt(1)), "Rock") :
        px \in ProbeCoords, py \in ProbeCoords, vx \in ProbeSpeeds}

\* What C12 says of one axis: coordinate c and velocity component v before,
\* nc and nv after, for the bound given.
ReflectedOnAxis(c, v, nc, nv, bound) ==
    /\ flt(c, 0) => (nc = fneg(c) /\ nv = fneg(v))
    /\ fgt(c, FromInt(bound)) => (nc = fsub(fmul(FromInt(2), FromInt(bound)), c) /\ nv = fneg(v))
    /\ (~flt(c, 0) /\ ~fgt(c, FromInt(bound))) => (nc = c /\ nv = v)
    /\ nv \in {v, fneg(v)}

\* What C12 says of check_wall_collision(u) = w.
ReflectedPerAxis(u, w) ==
    /\ ReflectedOnAxis(u.position.x, u.velocity.x, w.position.x, w.velocity.x, SCREEN_WIDTH)
    /\ ReflectedOnAxis(u.position.y, u.velocity.y, w.position.y, w.velocity.y, SCREEN_HEIGHT)
    /\ w.hand = u.hand

\* C12: check_wall_collision acts on each axis independently: a coordinate
\* below 0 is negated and that axis's velocity component is negated; a
\* coordinate above the bound becomes 2 * bound minus the coordinate and that
\* velocity component is negated; a coordinate from 0 to the bound leaves that
\* axis's position and velocity as they were.  The magnitude of every velocity
\* component is kept.  x = -3, vx = 2 gives x = 3, vx = -2; x = 85, vx = 1
\* with bound 80 gives x = 75, vx = -1.  This holds of every particle each
\* update moves and of every probe.
C12_ReflectPerAxis ==
    /\ last.updated =>
          \A i \in Idx :
              /\ ReflectedPerAxis(Integrated[i], check_wall_collision(Integrated[i]))
              /\ \E k \in MoveEvents : Log[k].lhs = i
    /\ last.op = "new" =>
          \A u \in Probes : ReflectedPerAxis(u, check_wall_collision(u))
    /\ check_wall_collision(Particle(Vec2f(FromInt(-3), FromInt(40)),
                                     Vec2f(FromInt(2), 0), "Rock"))
         = Particle(Vec2f(FromInt(3), FromInt(40)), Vec2f(FromInt(-2), 0), "Rock")
    /\ check_wall_collision(Particle(Vec2f(FromInt(85), FromInt(40)),
                                     Vec2f(FromInt(1), 0), "Rock"))
         = Particle(Vec2f(FromInt(75), FromInt(40)), Vec2f(FromInt(-1), 0), "Rock")

\* An update in which one particle left the field below 0 and another above
\* SCREEN_WIDTH on the x axis while staying inside on the y axis, and neither
\* took part in a collision: both are back inside with the x velocity negated
\* and the y velocity kept.
C12_Witness ==
    /\ last.updated
    /\ \E i, j \in Idx :
          /\ flt(Integrated[i].position.x, 0)
          /\ fgt(Integrated[j].position.x, FromInt(SCREEN_WIDTH))
          /\ ~flt(Integrated[i].position.y, 0)
          /\ ~fgt(Integrated[j].position.y, FromInt(SCREEN_HEIGHT))
          /\ Integrated[j].velocity.y # 0
          /\ \A k \in CollideEvents : {i, j} \cap {Log[k].lhs, Log[k].rhs} = {}
          /\ particles[i].position.x = fneg(Integrated[i].position.x)
          /\ particles[j].position.x
               = fsub(fmul(FromInt(2), FromInt(SCREEN_WIDTH)), Integrated[j].position.x)
          /\ particles[i].velocity.x = fneg(last.particles[i].velocity.x)
          /\ particles[j].velocity.x = fneg(last.particles[j].velocity.x)
          /\ particles[j].velocity.y = last.particles[j].velocity.y

\* The test events of the last update that no collide event precedes: they
\* were made on the particles as the movement left them.
TestsBeforeCollision ==
    {k \in TestEvents : \A c \in CollideEvents : k < c}

\* What C13 says of two particles a and b, the distance being the one
\* Vec2f::distance computes.
CollidesIffCloser(a, b) ==
    LET dist == distance(a.position, b.position)
        ab == collides_width(a, b)
        ba == collides_width(b, a)
    IN  /\ ab <=> flt(dist, TwoRadius)
        /\ dist = TwoRadius => ~ab
        /\ ab <=> ba

\* C13: collides_width(a, b) is true if and only if the computed distance
\* between the two centres is strictly less than 2 * PARTICLE_RADIUS; particles
\* exactly 2 * PARTICLE_RADIUS apart do not collide; the predicate is
\* symmetric.  This holds of every two particles an update leaves, and the
\* tests the scan makes on the moved particles report that value.
C13_CollidesIffStrictlyCloser ==
    /\ last.updated =>
          \A i, j \in Idx : i < j => CollidesIffCloser(particles[i], particles[j])
    /\ TestsBeforeCollision # {} =>
          LET moved == Moved
          IN  \A k \in TestsBeforeCollision :
                  Log[k].hit <=> flt(distance(moved[Log[k].lhs].position,
                                              moved[Log[k].rhs].position), TwoRadius)

\* An update that tested a pair closer than 2 * PARTICLE_RADIUS and resolved
\* it, leaving the two exactly 2 * PARTICLE_RADIUS apart, where they do not
\* collide, and that tested another pair farther apart.
C13_Witness ==
    /\ \E k \in TestsBeforeCollision : ~Log[k].hit
    /\ \E c \in CollideEvents :
          /\ c - 1 \in TestsBeforeCollision
          /\ Log[c - 1].hit
          /\ distance(Log[c].after[1].position, Log[c].after[2].position) = TwoRadius
          /\ particles[Log[c].lhs].position = Log[c].after[1].position
          /\ particles[Log[c].rhs].position = Log[c].after[2].position
          /\ ~collides_width(particles[Log[c].lhs], particles[Log[c].rhs])

\* The particles, frame_time and mode one tick makes of the particles ps, the
\* frame_time ft and the mode m on the key and the elapsed time dt handed in
\* by the host.
TickResult(ps, ft, m, key, dt) ==
    IF m = "Playing"
    THEN IF fgt(fadd(ft, dt), FromInt(FRAME_DURATION))
         THEN [particles |-> Update(ps).ps, frame_time |-> 0, mode |-> m]
         ELSE [particles |-> ps, frame_time |-> fadd(ft, dt), mode |-> m]
    ELSE IF key = "P"
         THEN [particles |-> ps, frame_time |-> 0, mode |-> "Playing"]
         ELSE [particles |-> ps, frame_time |-> ft, mode |-> m]

C15_OnlyPlayingTicksStep ==
    /\ last.mode \in {"Menu", "End"} =>
          /\ last.op \in {"new", "main_menu", "dead"}
          /\ particles = last.particles
          /\ frame_time = (IF last.op # "new" /\ last.key = "P" THEN 0 ELSE last.frame_time)
          /\ updates = 0
    /\ particles # last.particles =>
          /\ last.mode = "Playing"
          /\ last.op = "play"
          /\ last.updated
    /\ mode # last.mode =>
          /\ last.key = "P"
          /\ mode = "Playing"
          /\ particles = last.particles

\* A tick in mode Menu on key P: the mode is Playing, no particle has changed
\* and no update has been made.
C15_Witness ==
    /\ last.op = "main_menu"
    /\ last.mode = "Menu"
    /\ last.key = "P"
    /\ mode = "Playing"
    /\ particles = last.particles
    /\ frame_time = 0

\* The hand types held among the particles ps.
HandsHeld(ps) == {ps[i].hand : i \in Idx}

\* C16: the set of hand types held among the particles never gains a member
\* in a tick: a hand changes only in a collision and only to the hand the
\* collision partner held, so a hand type held by no particle does not come
\* back, and once all particles hold the same hand no hand changes.
C16_HandsNeverGainMember ==
    /\ HandsHeld(particles) \subseteq HandsHeld(last.particles)
    /\ \A c \in CollideEvents :
          /\ Log[c].after[1].hand \in {Log[c].before[1].hand, Log[c].before[2].hand}
          /\ Log[c].after[2].hand \in {Log[c].before[1].hand, Log[c].before[2].hand}
    /\ \A i \in Idx :
          particles[i].hand # last.particles[i].hand =>
              \E c \in CollideEvents :
                  \/ Log[c].lhs = i /\ Log[c].after[1].hand # Log[c].before[1].hand
                  \/ Log[c].rhs = i /\ Log[c].after[2].hand # Log[c].before[2].hand
    /\ Cardinality(HandsHeld(last.particles)) = 1 =>
          \A i \in Idx : particles[i].hand = last.particles[i].hand

\* An update whose collision converted the last particle holding some hand
\* type: fewer hand types are held after it than before.
C16_Witness ==
    /\ last.updated
    /\ CollideEvents # {}
    /\ Cardinality(HandsHeld(particles)) < Cardinality(HandsHeld(last.particles))

\* The particle p lies inside the field.
InsideField(p) ==
    /\ IsFinite(p.position.x) /\ IsFinite(p.position.y)
    /\ ~flt(p.position.x, 0) /\ ~fgt(p.position.x, FromInt(SCREEN_WIDTH))
    /\ ~flt(p.position.y, 0) /\ ~fgt(p.position.y, FromInt(SCREEN_HEIGHT))

\* C17: at the end of every logical update every particle's position lies
\* inside the field, 0 <= x <= SCREEN_WIDTH and 0 <= y <= SCREEN_HEIGHT,
\* particles moved by collision separation included.  Stated of the updates
\* that start from particles inside the field and resolve at most one
\* collision, of a pair at a distance whose square is a normal number: the
\* updates in which neither a second collision nor a division by zero occurs.
C17_PositionsInsideField ==
    (/\ last.updated
     /\ \A i \in Idx : InsideField(last.particles[i])
     /\ Cardinality(CollideEvents) <= 1
     /\ \A c \in CollideEvents : DistanceSqNormal(Log[c])) =>
        \A i \in Idx : InsideField(particles[i])

\* C18: the mode starts as Menu, changes only from Menu to Playing and only
\* on key P, and once Playing it is Playing after every later tick; the mode
\* is never End and score is 0 in every reachable state.
C18_ModeMenuThenPlaying ==
    /\ mode \in {"Menu", "Playing"}
    /\ score = 0
    /\ last.op = "new" => mode = "Menu"
    /\ last.mode = "Playing" => mode = "Playing"
    /\ last.mode = "Menu" =>
          mode = (IF last.op = "main_menu" /\ last.key = "P" THEN "Playing" ELSE "Menu")

\* After key P and two updates, the second of them taken in mode Playing: the
\* mode is still Playing and score is 0.
C18_Witness ==
    /\ last.op = "play"
    /\ last.mode = "Playing"
    /\ updates = 2
    /\ mode = "Playing"
    /\ score = 0

====
